---------------------------- MODULE Spec2Model ----------------------------
(***************************************************************************)
(* Model of the fan-out dispatcher of CrossListingService                  *)
(* (src/src/services/cross_listing_service.py) and of the retry executor   *)
(* retry_on_failure (src/src/utils/retry.py).                              *)
(*                                                                         *)
(* Spec      : one service instance serving create / update / delete      *)
(*             cross-listing calls; the per-platform units of one call     *)
(*             run concurrently in a thread pool and are interleaved       *)
(*             freely.                                                     *)
(* RetrySpec : one function wrapped by retry_on_failure, called with       *)
(*             every sequence of outcomes of the wrapped function.         *)
(* RetryFairSpec : RetrySpec in which a call that has begun keeps running. *)
(* PlatformSpec : create calls whose units run Platform.list_item under    *)
(*             its retry decorator against scripted marketplace APIs       *)
(*             (src/src/platforms/mercari.py; vinted.py has the same       *)
(*             shape for a listing without photos and a valid token).      *)
(* BackoffSpec : calculate_backoff over the attempts of a wrapped call.    *)
(* BreakerSpec : one CircuitBreaker, called by one thread at a time.       *)
(* ConcurrentBreakerSpec : the same breaker, called by two threads whose   *)
(*             calls overlap.                                              *)
(* GuardedSpec : single-provider create calls beside a CircuitBreaker().   *)
(* OAuthSpec : one OAuthTokenManager (src/src/utils/oauth_manager.py),     *)
(*             called by one thread at a time.                             *)
(* ConcurrentOAuthSpec : the same manager, called by two threads whose     *)
(*             calls overlap.                                              *)
(* PoolSpec  : the thread pools of dispatch calls that two threads make    *)
(*             on one service at the same time.                            *)
(* DeadlineSpec : PlatformSpec with a caller whose deadline may expire     *)
(*             during the call.                                            *)
(***************************************************************************)
EXTENDS Integers, Sequences, FiniteSets, TLC

VARIABLES
    \* ---- CrossListingService: one call in progress --------------------
    phase,                \* "idle" | "dispatching" | "returned"
    op,                   \* "create" | "update" | "delete" | "none"
    target_platforms,     \* the caller's target list
    valid,                \* listing_data.validate()
    beh,                  \* behaviour of each platform's API during the call
    available_platforms,  \* the platform of each submitted unit, in order
    future,               \* index -> [state, raised, result] of that unit
    yielded,              \* indices as_completed has already yielded
    listing_ids,          \* dict platform -> listing id
    successful_platforms, \* list
    failed_platforms,     \* list
    result,               \* the dict the call returned
    invoked,              \* platform -> number of provider method calls
    prev,                 \* outcome of the previous call with these targets
    \* ---- retry_on_failure: one wrapped call in progress ---------------
    r_pc,                 \* "idle" | "attempt" | "sleeping" | "returned" | "raised"
    config,               \* the RetryConfig of the decorator
    attempt,              \* loop index of `for attempt in range(...)`
    func_calls,           \* invocations of the wrapped function
    sleeps,               \* time.sleep calls made
    backoff_time,         \* argument of the pending time.sleep (1/100 s)
    last_outcome,         \* what the wrapped function did last
    last_exception,       \* the wrapper's local last_exception
    surfaced,             \* what the wrapper handed to its caller, and how
    all_retryable,        \* every attempt so far ended in a retryable condition
    \* ---- the platforms and their marketplace APIs ---------------------
    authenticated,        \* platform -> its self.authenticated flag
    api_script,           \* platform -> how its API answers during the call
    api_requests,         \* platform -> HTTP requests its API got in the call
    create_requests,      \* platform -> POST /items requests among them
    unit_attempt,         \* unit -> loop index of the wrapper of list_item
    \* ---- calculate_backoff over the attempts of one wrapped call -------
    bk_config,            \* the RetryConfig passed to calculate_backoff
    bk_attempt,           \* the attempt passed to calculate_backoff
    bk_backoff,           \* the value returned for bk_attempt (1/100 s)
    bk_previous,          \* the value returned for bk_attempt - 1
    \* ---- one CircuitBreaker and the threads calling through it --------
    breaker,              \* its fields and constructor arguments
    now,                  \* time.time()
    cb_pc,                \* thread -> "idle" | "in_func" | "on_failure"
                          \*           | "rejecting"
    cb_read,              \* thread -> failure_count as loaded by `+= 1`
    cb_last,              \* thread -> how its last call through it ended
    any_success,          \* some call of the wrapped function has returned
    trailing_failures,    \* calls of the function that failed since then
    failed_at,            \* time of the last failure of the function
    \* ---- one OAuthTokenManager and the threads calling it -------------
    oauth,                \* its token fields and its refresh threshold
    oa_now,               \* datetime.now(), in seconds
    oa_pc,                \* thread -> "idle" | "refresh" | "waiting"
                          \*           | "return" | "failed" | "no_token"
    oa_attempt,           \* thread -> attempt index of the retry decorator
    oa_posts,             \* thread -> requests posted by its current call
    oa_valid,             \* what is_token_valid() said of the present state
    oa_revoked,           \* what revoke_tokens() returned, the state being
                          \* as it left it
    \* ---- the executors of dispatch calls made by concurrent threads ---
    svc_max_workers,      \* self.max_workers of the service
    executor,             \* thread -> the executor of its dispatch call
    \* ---- the deadline of the caller of a dispatch call ----------------
    deadline_expired,     \* it has expired since the call began
    outstanding           \* the units that had not completed when it did

svc_vars == <<phase, op, target_platforms, valid, beh, available_platforms,
              future, yielded, listing_ids, successful_platforms,
              failed_platforms, result, invoked, prev>>
retry_vars == <<r_pc, config, attempt, func_calls, sleeps, backoff_time,
                last_outcome, last_exception, surfaced, all_retryable>>
api_vars == <<authenticated, api_script, api_requests, create_requests,
              unit_attempt>>
backoff_vars == <<bk_config, bk_attempt, bk_backoff, bk_previous>>
breaker_vars == <<breaker, now, cb_pc, cb_read, cb_last, any_success,
                  trailing_failures, failed_at>>
oauth_vars == <<oauth, oa_now, oa_pc, oa_attempt, oa_posts, oa_valid,
                oa_revoked>>
pool_vars == <<svc_max_workers, executor>>
deadline_vars == <<deadline_expired, outstanding>>
outside_svc == <<retry_vars, api_vars, backoff_vars, breaker_vars,
                 oauth_vars, pool_vars, deadline_vars>>
outside_retry == <<svc_vars, api_vars, backoff_vars, breaker_vars,
                   oauth_vars, pool_vars, deadline_vars>>
outside_api == <<retry_vars, backoff_vars, breaker_vars, oauth_vars,
                 pool_vars, deadline_vars>>
outside_backoff == <<svc_vars, retry_vars, api_vars, breaker_vars,
                     oauth_vars, pool_vars, deadline_vars>>
outside_breaker == <<svc_vars, retry_vars, api_vars, backoff_vars,
                     oauth_vars, pool_vars, deadline_vars>>
outside_oauth == <<svc_vars, retry_vars, api_vars, backoff_vars,
                   breaker_vars, pool_vars, deadline_vars>>
outside_pool == <<svc_vars, retry_vars, api_vars, backoff_vars, breaker_vars,
                  oauth_vars, deadline_vars>>
outside_deadline == <<svc_vars, retry_vars, api_vars, backoff_vars,
                      breaker_vars, oauth_vars, pool_vars>>
vars == <<svc_vars, retry_vars, api_vars, backoff_vars, breaker_vars,
          oauth_vars, pool_vars, deadline_vars>>

----------------------------------------------------------------------------
(* Bounds of the model *)

MaxTargets == 2
MaxRetriesBound == 3
MaxFailures == 4
MaxAttempt == 7
MaxThreshold == 3
MaxTimeout == 2
MaxTime == 4
OAuthMaxTicks == 4
MaxUnits == 3

----------------------------------------------------------------------------
(* Helpers *)

Range(s) == {s[i] : i \in DOMAIN s}

Min(a, b) == IF a <= b THEN a ELSE b

Max(a, b) == IF a >= b THEN a ELSE b

RECURSIVE Pow(_, _)
Pow(b, n) == IF n = 0 THEN 1 ELSE b * Pow(b, n - 1)

EmptyDict == [x \in {} |-> x]

RECURSIVE DictItems(_)
\* dict.items(): the keys of a dict as a list
DictItems(d) ==
    IF DOMAIN d = {} THEN <<>>
    ELSE LET k == CHOOSE x \in DOMAIN d : TRUE
         IN  <<k>> \o DictItems([y \in DOMAIN d \ {k} |-> d[y]])

----------------------------------------------------------------------------
(* CrossListingService *)

\* self.platforms: the platforms the configuration enables
Platforms == {"mercari", "vinted"}

\* what a caller may name: the enabled platforms and one that is not
ProviderIds == Platforms \cup {"facebook_marketplace"}

max_workers == 5

\* what a platform method does when called: return, or raise an Exception
ProviderOutcomes == {"ok", "transient", "permanent"}

Behaviours == [Platforms -> ProviderOutcomes]

TargetLists == UNION {[1..n -> ProviderIds] : n \in 0..MaxTargets}

ItemId == "item_001"

ListingIdOf(p) == <<"listing", p>>

ErrorText(p, out) == <<"error", p, out>>

NoPrev == [present |-> FALSE]

NoCallResult == [pending |-> TRUE]

\* available_platforms = [p for p in target_platforms if p in self.platforms]
AvailablePlatforms(targets) == SelectSeq(targets, LAMBDA p : p \in Platforms)

InvalidDataResult_NoneFailed(targets) ==
    [success |-> FALSE, error |-> "Invalid listing data",
     listing_ids |-> EmptyDict, failed_platforms |-> <<>>,
     successful_platforms |-> <<>>]

\* the outcome returned `if not listing_data.validate()`
InvalidDataResult(targets) ==
    [success |-> FALSE, error |-> "Invalid listing data",
     listing_ids |-> EmptyDict, failed_platforms |-> targets,
     successful_platforms |-> <<>>]

NoAvailableResult_Empty(targets) ==
    [success |-> FALSE, error |-> "No available platforms",
     listing_ids |-> EmptyDict, failed_platforms |-> <<>>,
     successful_platforms |-> <<>>]

NoAvailableResult(targets) ==
    [success |-> FALSE, error |-> "No available platforms",
     listing_ids |-> EmptyDict, failed_platforms |-> targets,
     successful_platforms |-> <<>>]

get_platform_listings_Found(item_id) == [mercari |-> "m-1"]

\* _get_platform_listings: the shipped lookup returns an empty dict
get_platform_listings(item_id) == EmptyDict

NoListingsResult(item_id) ==
    [success |-> FALSE, error |-> "No platform listings found for item",
     item_id |-> item_id]

\* a submitted unit that no worker has picked up yet
PendingFuture == [state |-> "pending", raised |-> FALSE,
                  result |-> [success |-> FALSE]]

create_single_listing_Optimistic(p, out) ==
    [state |-> "done", raised |-> FALSE,
     result |-> [success |-> TRUE, listing_id |-> ListingIdOf(p), platform |-> p]]

\* _create_single_listing: platform.list_item inside try / except Exception
create_single_listing(p, out) ==
    IF p \in Platforms /\ out = "ok"
    THEN [state |-> "done", raised |-> FALSE,
          result |-> [success |-> TRUE, listing_id |-> ListingIdOf(p),
                      platform |-> p]]
    ELSE [state |-> "done", raised |-> FALSE,
          result |-> [success |-> FALSE, error |-> ErrorText(p, out),
                      platform |-> p]]

\* _update_single_listing: platform.update_listing inside try / except
update_single_listing(p, out) ==
    IF p \in Platforms /\ out = "ok"
    THEN [state |-> "done", raised |-> FALSE,
          result |-> [success |-> TRUE, result |-> "ack", platform |-> p]]
    ELSE [state |-> "done", raised |-> FALSE,
          result |-> [success |-> FALSE, error |-> ErrorText(p, out),
                      platform |-> p]]

\* _delete_single_listing: success is what platform.delete_listing returned
delete_single_listing(p, out) ==
    IF p \in Platforms /\ out = "ok"
    THEN [state |-> "done", raised |-> FALSE,
          result |-> [success |-> TRUE, platform |-> p]]
    ELSE [state |-> "done", raised |-> FALSE,
          result |-> [success |-> FALSE, error |-> ErrorText(p, out),
                      platform |-> p]]

SingleResult(o, p, out) ==
    CASE o = "create" -> create_single_listing(p, out)
      [] o = "update" -> update_single_listing(p, out)
      [] OTHER        -> delete_single_listing(p, out)

\* executor.submit for every element of the list, in order
SubmitAll(names) == [i \in 1..Len(names) |-> PendingFuture]

Running == {i \in DOMAIN future : future[i].state = "running"}

Completed_Any(i) == TRUE

\* as_completed yields a future only once it is done
Completed(i) == future[i].state = "done"

AllYielded_First == yielded # {}

\* the as_completed loop ends when every future has been yielded
AllYielded == yielded = DOMAIN future

Aggregate_Reset(acc, p, f) ==
    IF ~f.raised /\ f.result.success
    THEN [listing_ids |-> (p :> f.result.listing_id) @@ acc.listing_ids,
          successful |-> Append(acc.successful, p),
          failed |-> acc.failed]
    ELSE [listing_ids |-> EmptyDict,
          successful |-> <<>>,
          failed |-> Append(acc.failed, p)]

\* the body of the as_completed loop of create_cross_listing
Aggregate(acc, p, f) ==
    IF ~f.raised /\ f.result.success
    THEN [listing_ids |-> (p :> f.result.listing_id) @@ acc.listing_ids,
          successful |-> Append(acc.successful, p),
          failed |-> acc.failed]
    ELSE [listing_ids |-> acc.listing_ids,
          successful |-> acc.successful,
          failed |-> Append(acc.failed, p)]

\* the body of the as_completed loop of update_ and delete_cross_listing
AggregatePlain(acc, p, f) ==
    IF ~f.raised /\ f.result.success
    THEN [listing_ids |-> acc.listing_ids,
          successful |-> Append(acc.successful, p),
          failed |-> acc.failed]
    ELSE [listing_ids |-> acc.listing_ids,
          successful |-> acc.successful,
          failed |-> Append(acc.failed, p)]

OverallSuccess(succ) == Len(succ) > 0

PartialSuccess_FailedOnly(succ, failed) == Len(failed) > 0

PartialSuccess(succ, failed) == Len(succ) > 0 /\ Len(failed) > 0

CreateResult ==
    [success |-> OverallSuccess(successful_platforms),
     partial_success |-> PartialSuccess(successful_platforms, failed_platforms),
     listing_ids |-> listing_ids,
     successful_platforms |-> successful_platforms,
     failed_platforms |-> failed_platforms,
     item_id |-> ItemId]

PlainResult ==
    [success |-> OverallSuccess(successful_platforms),
     successful_platforms |-> successful_platforms,
     failed_platforms |-> failed_platforms,
     item_id |-> ItemId]

\* what a caller keeps of a finished call to compare a later one with
Snapshot ==
    [present |-> TRUE, beh |-> beh,
     successful_platforms |-> result.successful_platforms,
     failed_platforms |-> result.failed_platforms,
     listing_ids |-> result.listing_ids]

\* two behaviours that differ in at most one platform
DifferInAtMostOne(b1, b2) ==
    Cardinality({p \in Platforms : b1[p] # b2[p]}) <= 1

SvcInit ==
    /\ phase = "idle"
    /\ op = "none"
    /\ target_platforms = <<>>
    /\ valid = TRUE
    /\ beh = [p \in Platforms |-> "ok"]
    /\ available_platforms = <<>>
    /\ future = <<>>
    /\ yielded = {}
    /\ listing_ids = EmptyDict
    /\ successful_platforms = <<>>
    /\ failed_platforms = <<>>
    /\ result = NoCallResult
    /\ invoked = [p \in ProviderIds |-> 0]
    /\ prev = NoPrev

\* create_cross_listing up to the submission of the units (lines 60-99)
StartCreate(targets, v, b) ==
    /\ op' = "create"
    /\ target_platforms' = targets
    /\ valid' = v
    /\ beh' = b
    /\ yielded' = {}
    /\ listing_ids' = EmptyDict
    /\ successful_platforms' = <<>>
    /\ failed_platforms' = <<>>
    /\ invoked' = [p \in ProviderIds |-> 0]
    /\ IF ~v
       THEN /\ phase' = "returned"
            /\ result' = InvalidDataResult(targets)
            /\ available_platforms' = <<>>
            /\ future' = <<>>
       ELSE IF AvailablePlatforms(targets) = <<>>
       THEN /\ phase' = "returned"
            /\ result' = NoAvailableResult(targets)
            /\ available_platforms' = <<>>
            /\ future' = <<>>
       ELSE /\ phase' = "dispatching"
            /\ result' = NoCallResult
            /\ available_platforms' = AvailablePlatforms(targets)
            /\ future' = SubmitAll(AvailablePlatforms(targets))

CreateCrossListing ==
    /\ phase = "idle"
    /\ \E targets \in TargetLists, v \in BOOLEAN, b \in Behaviours :
          StartCreate(targets, v, b)
    /\ prev' = NoPrev
    /\ UNCHANGED outside_svc

\* the caller issues the same create call once more, the platforms behaving
\* the same or one of them differently, and keeps the first outcome
CreateCrossListingAgain ==
    /\ phase = "returned"
    /\ op = "create"
    /\ "partial_success" \in DOMAIN result
    /\ \E b \in Behaviours :
          /\ DifferInAtMostOne(beh, b)
          /\ StartCreate(target_platforms, valid, b)
    /\ prev' = Snapshot
    /\ UNCHANGED outside_svc

\* update_cross_listing / delete_cross_listing up to the submission of units
StartPlain(o, b) ==
    LET platform_listings == get_platform_listings(ItemId)
        names == DictItems(platform_listings)
    IN  /\ op' = o
        /\ target_platforms' = <<>>
        /\ valid' = TRUE
        /\ beh' = b
        /\ yielded' = {}
        /\ listing_ids' = EmptyDict
        /\ successful_platforms' = <<>>
        /\ failed_platforms' = <<>>
        /\ invoked' = [p \in ProviderIds |-> 0]
        /\ available_platforms' = names
        /\ future' = SubmitAll(names)
        /\ IF DOMAIN platform_listings = {}
           THEN /\ phase' = "returned"
                /\ result' = NoListingsResult(ItemId)
           ELSE /\ phase' = "dispatching"
                /\ result' = NoCallResult

UpdateCrossListing ==
    /\ phase = "idle"
    /\ \E b \in Behaviours : StartPlain("update", b)
    /\ prev' = NoPrev
    /\ UNCHANGED outside_svc

DeleteCrossListing ==
    /\ phase = "idle"
    /\ \E b \in Behaviours : StartPlain("delete", b)
    /\ prev' = NoPrev
    /\ UNCHANGED outside_svc

\* a pool worker picks a submitted unit up
UnitStart(i) ==
    /\ phase = "dispatching"
    /\ future[i].state = "pending"
    /\ Cardinality(Running) < max_workers
    /\ future' = [future EXCEPT ![i].state = "running"]
    /\ UNCHANGED <<phase, op, target_platforms, valid, beh,
                   available_platforms, yielded, listing_ids,
                   successful_platforms, failed_platforms, result, invoked,
                   prev>>
    /\ UNCHANGED outside_svc

\* the unit calls its platform and stores what _xxx_single_listing returns
UnitFinish(i) ==
    /\ phase = "dispatching"
    /\ future[i].state = "running"
    /\ LET p == available_platforms[i]
       IN  /\ future' = [future EXCEPT ![i] = SingleResult(op, p, beh[p])]
           /\ invoked' = [invoked EXCEPT ![p] = @ + 1]
    /\ UNCHANGED <<phase, op, target_platforms, valid, beh,
                   available_platforms, yielded, listing_ids,
                   successful_platforms, failed_platforms, result, prev>>
    /\ UNCHANGED outside_svc

\* one iteration of `for future in as_completed(future_to_platform)`
Collect(i) ==
    /\ phase = "dispatching"
    /\ i \notin yielded
    /\ Completed(i)
    /\ LET acc == [listing_ids |-> listing_ids,
                   successful |-> successful_platforms,
                   failed |-> failed_platforms]
           p == available_platforms[i]
           new == IF op = "create" THEN Aggregate(acc, p, future[i])
                                   ELSE AggregatePlain(acc, p, future[i])
       IN  /\ listing_ids' = new.listing_ids
           /\ successful_platforms' = new.successful
           /\ failed_platforms' = new.failed
    /\ yielded' = yielded \cup {i}
    /\ UNCHANGED <<phase, op, target_platforms, valid, beh,
                   available_platforms, future, result, invoked, prev>>
    /\ UNCHANGED outside_svc

\* the loop is over, the pool is shut down, the outcome dict is returned
Return ==
    /\ phase = "dispatching"
    /\ AllYielded
    /\ phase' = "returned"
    /\ result' = IF op = "create" THEN CreateResult ELSE PlainResult
    /\ UNCHANGED <<op, target_platforms, valid, beh, available_platforms,
                   future, yielded, listing_ids, successful_platforms,
                   failed_platforms, invoked, prev>>
    /\ UNCHANGED outside_svc

\* the caller drops the outcome; the service is idle again
DropOutcome ==
    /\ phase = "returned"
    /\ phase' = "idle"
    /\ op' = "none"
    /\ target_platforms' = <<>>
    /\ valid' = TRUE
    /\ beh' = [p \in Platforms |-> "ok"]
    /\ available_platforms' = <<>>
    /\ future' = <<>>
    /\ yielded' = {}
    /\ listing_ids' = EmptyDict
    /\ successful_platforms' = <<>>
    /\ failed_platforms' = <<>>
    /\ result' = NoCallResult
    /\ invoked' = [p \in ProviderIds |-> 0]
    /\ prev' = NoPrev

Reset ==
    /\ DropOutcome
    /\ UNCHANGED outside_svc

----------------------------------------------------------------------------
(* retry_on_failure *)

DefaultBackoffFactor == 2

DefaultMaxBackoff == 60

DefaultRetryOnStatus == {429, 500, 502, 503, 504}

DefaultRetryOnExceptions == {"ConnectionError", "Timeout", "RequestException"}

Statuses == {200, 404} \cup DefaultRetryOnStatus

ExceptionTypes == {"ConnectionError", "Timeout", "RequestException",
                   "ValueError", "Exception"}

\* isinstance(e, cls) for an exception e of type t
IsInstance(t, cls) ==
    \/ t = cls
    \/ cls = "Exception"
    \/ cls = "RequestException" /\ t \in {"ConnectionError", "Timeout"}

\* what the wrapped function may do when called
FuncOutcomes ==
    {[kind |-> "value"]}
    \cup {[kind |-> "response", status |-> s] : s \in Statuses}
    \cup {[kind |-> "exception", type |-> t] : t \in ExceptionTypes}

\* random.uniform(-jitter_range, jitter_range), in percent of the backoff
JitterDraws == {-10, 0, 10}

\* RetryConfig(max_retries=r, backoff_factor=2, jitter=j)
RetryConfig(r, j) ==
    [max_retries |-> r,
     backoff_factor |-> DefaultBackoffFactor,
     retry_on_status |-> DefaultRetryOnStatus,
     retry_on_exceptions |-> DefaultRetryOnExceptions,
     max_backoff |-> DefaultMaxBackoff,
     jitter |-> j]

RetryConfigs == {RetryConfig(r, j) : r \in 0..MaxRetriesBound, j \in BOOLEAN}

calculate_backoff_Uncapped(n, cfg, u) ==
    LET jittered == IF cfg.jitter
                    THEN Pow(cfg.backoff_factor, n) * (100 + u)
                    ELSE Pow(cfg.backoff_factor, n) * 100
    IN  Max(0, jittered)

\* calculate_backoff, in hundredths of a second; u is the jitter drawn
calculate_backoff(n, cfg, u) ==
    LET capped == Min(Pow(cfg.backoff_factor, n), cfg.max_backoff)
        jittered == IF cfg.jitter THEN capped * 100 + capped * u
                                  ELSE capped * 100
    IN  Max(0, jittered)

\* result is a Response whose status_code is in config.retry_on_status
RetryableStatus(out, cfg) ==
    out.kind = "response" /\ out.status \in cfg.retry_on_status

ShouldRetry_AnyException(out, cfg) == out.kind = "exception"

\* should_retry = any(isinstance(e, t) for t in config.retry_on_exceptions)
ShouldRetry(out, cfg) ==
    out.kind = "exception"
    /\ \E cls \in cfg.retry_on_exceptions : IsInstance(out.type, cls)

MayRetry_OneFewer(n, cfg) == n + 1 < cfg.max_retries

MayRetry_OneMore(n, cfg) == n <= cfg.max_retries

\* attempt < config.max_retries
MayRetry(n, cfg) == n < cfg.max_retries

NoOutcome == [kind |-> "none"]

\* nothing has been returned or raised yet
NotSurfaced == [how |-> "none", value |-> NoOutcome]

\* `return result`
ReturnResult(out) == [how |-> "return", value |-> out]

\* `raise`, `raise last_exception`: the exception object itself
RaiseException(e) == [how |-> "raise", value |-> e]

RetryInit ==
    /\ r_pc = "idle"
    /\ config = RetryConfig(0, FALSE)
    /\ attempt = 0
    /\ func_calls = 0
    /\ sleeps = 0
    /\ backoff_time = 0
    /\ last_outcome = NoOutcome
    /\ last_exception = NoOutcome
    /\ surfaced = NotSurfaced
    /\ all_retryable = TRUE

\* the wrapper is called: the loop `for attempt in range(max_retries + 1)`
RetryCall ==
    /\ r_pc = "idle"
    /\ \E cfg \in RetryConfigs :
          /\ config' = cfg
          /\ r_pc' = IF cfg.max_retries + 1 > 0 THEN "attempt" ELSE "returned"
    /\ attempt' = 0
    /\ func_calls' = 0
    /\ sleeps' = 0
    /\ backoff_time' = 0
    /\ last_outcome' = NoOutcome
    /\ last_exception' = NoOutcome
    /\ surfaced' = NotSurfaced
    /\ all_retryable' = TRUE
    /\ UNCHANGED outside_retry

\* one iteration of the loop, up to its return, raise or time.sleep
RetryAttempt ==
    /\ r_pc = "attempt"
    /\ \E out \in FuncOutcomes, u \in JitterDraws :
          /\ last_outcome' = out
          /\ last_exception' = IF out.kind = "exception" THEN out
                                                          ELSE last_exception
          /\ all_retryable' =
                (all_retryable
                 /\ (RetryableStatus(out, config) \/ ShouldRetry(out, config)))
          /\ IF out.kind = "exception"
             THEN IF ShouldRetry(out, config) /\ MayRetry(attempt, config)
                  THEN /\ r_pc' = "sleeping"
                       /\ backoff_time' = calculate_backoff(attempt, config, u)
                       /\ surfaced' = surfaced
                  ELSE /\ r_pc' = "raised"
                       /\ backoff_time' = 0
                       /\ surfaced' = RaiseException(out)
             ELSE IF RetryableStatus(out, config) /\ MayRetry(attempt, config)
                  THEN /\ r_pc' = "sleeping"
                       /\ backoff_time' = calculate_backoff(attempt, config, u)
                       /\ surfaced' = surfaced
                  ELSE /\ r_pc' = "returned"
                       /\ backoff_time' = 0
                       /\ surfaced' = ReturnResult(out)
    /\ func_calls' = func_calls + 1
    /\ UNCHANGED <<config, attempt, sleeps>>
    /\ UNCHANGED outside_retry

RetrySleep_Skipped ==
    /\ r_pc = "sleeping"
    /\ r_pc' = "attempt"
    /\ attempt' = attempt + 1
    /\ backoff_time' = 0
    /\ UNCHANGED <<config, func_calls, sleeps, last_outcome, last_exception,
                   surfaced, all_retryable>>
    /\ UNCHANGED outside_retry

\* time.sleep(backoff_time); continue -- or the loop is exhausted
RetrySleep ==
    /\ r_pc = "sleeping"
    /\ sleeps' = sleeps + 1
    /\ backoff_time' = 0
    /\ IF attempt + 1 < config.max_retries + 1
       THEN /\ r_pc' = "attempt"
            /\ attempt' = attempt + 1
            /\ surfaced' = surfaced
       ELSE /\ r_pc' = IF last_exception.kind = "exception" THEN "raised"
                                                            ELSE "returned"
            /\ surfaced' = IF last_exception.kind = "exception"
                            THEN RaiseException(last_exception)
                            ELSE ReturnResult(NoOutcome)
            /\ attempt' = attempt
    /\ UNCHANGED <<config, func_calls, last_outcome, last_exception,
                   all_retryable>>
    /\ UNCHANGED outside_retry

\* the caller has the result or the exception; the wrapper may be called again
RetryDone ==
    /\ r_pc \in {"returned", "raised"}
    /\ r_pc' = "idle"
    /\ config' = RetryConfig(0, FALSE)
    /\ attempt' = 0
    /\ func_calls' = 0
    /\ sleeps' = 0
    /\ backoff_time' = 0
    /\ last_outcome' = NoOutcome
    /\ last_exception' = NoOutcome
    /\ surfaced' = NotSurfaced
    /\ all_retryable' = TRUE
    /\ UNCHANGED outside_retry

----------------------------------------------------------------------------
(* Platform.list_item over HTTP, as the dispatcher's units run it *)

\* @retry_on_failure(RetryConfig(max_retries=3, backoff_factor=2))
ListItemMaxRetries == 3

ListItemRetryConfig == RetryConfig(ListItemMaxRetries, TRUE)

\* what the marketplace API does with a request it does not serve: answer
\* with an HTTP error status, or not answer before requests' timeout
ApiFailures == {"500", "503", "timeout"}

AlwaysServes == [kind |-> "none", failures |-> 0]

\* the API fails the first `failures` requests of a call and serves the rest
ApiScripts ==
    {AlwaysServes}
    \cup {[kind |-> k, failures |-> n] : k \in ApiFailures, n \in 1..MaxFailures}

\* the API's answer to the k-th request of the call
Answer(scr, k) == IF k <= scr.failures THEN scr.kind ELSE "ok"

authenticate_Lenient(answer) == TRUE

\* authenticate(): True on status 200; False on another status or on an
\* exception of requests.get
authenticate(answer) == answer = "ok"

\* one execution of the body of list_item, the API having got nsent requests
list_item(is_authenticated, scr, nsent) ==
    LET login == ~is_authenticated
        n1 == IF login THEN nsent + 1 ELSE nsent
        post == Answer(scr, n1 + 1)
    IN  IF login /\ ~authenticate(Answer(scr, nsent + 1))
        THEN [out |-> [kind |-> "exception", type |-> "Exception"],
              authenticated |-> FALSE, requests |-> n1, posts |-> 0]
        ELSE [out |-> CASE post = "ok" -> [kind |-> "value"]
                        [] post = "timeout" ->
                              [kind |-> "exception", type |-> "Timeout"]
                        [] OTHER ->
                              [kind |-> "exception", type |-> "Exception"],
              authenticated |-> TRUE, requests |-> n1 + 1, posts |-> 1]

\* what _create_single_listing sees of the decorated list_item
ListItemOutcome(out) ==
    CASE out.kind = "value" -> "ok"
      [] ShouldRetry(out, ListItemRetryConfig) -> "transient"
      [] OTHER -> "permanent"

\* target lists naming enabled platforms only, each once
ApiTargetLists ==
    {t \in TargetLists :
        /\ t # <<>>
        /\ Range(t) \subseteq Platforms
        /\ \A i, j \in DOMAIN t : i # j => t[i] # t[j]}

NoRequests == [p \in Platforms |-> 0]

ApiInit ==
    /\ authenticated = [p \in Platforms |-> FALSE]
    /\ api_script = [p \in Platforms |-> AlwaysServes]
    /\ api_requests = NoRequests
    /\ create_requests = NoRequests
    /\ unit_attempt = <<>>

\* create_cross_listing of a valid listing, the APIs following the scripts
StartOverHttp(targets, scr) ==
    /\ StartCreate(targets, TRUE, [p \in Platforms |-> "ok"])
    /\ api_script' = scr
    /\ unit_attempt' = [i \in DOMAIN targets |-> 0]
    /\ api_requests' = NoRequests
    /\ create_requests' = NoRequests
    /\ prev' = NoPrev
    /\ UNCHANGED authenticated

CreateOverHttp ==
    /\ phase = "idle"
    /\ \E targets \in ApiTargetLists, scr \in [Platforms -> ApiScripts] :
          /\ \A p \in Platforms \ Range(targets) : scr[p] = AlwaysServes
          /\ StartOverHttp(targets, scr)
    /\ UNCHANGED outside_api

\* a unit runs one iteration of the retry loop around platform.list_item,
\* through its time.sleep if the loop continues
ListItemAttempt(i) ==
    /\ phase = "dispatching"
    /\ op = "create"
    /\ future[i].state = "running"
    /\ LET p == available_platforms[i]
           r == list_item(authenticated[p], api_script[p], api_requests[p])
           again == /\ \/ ShouldRetry(r.out, ListItemRetryConfig)
                       \/ RetryableStatus(r.out, ListItemRetryConfig)
                    /\ MayRetry(unit_attempt[i], ListItemRetryConfig)
       IN  /\ authenticated' = [authenticated EXCEPT ![p] = r.authenticated]
           /\ api_requests' = [api_requests EXCEPT ![p] = r.requests]
           /\ create_requests' = [create_requests EXCEPT ![p] = @ + r.posts]
           /\ invoked' = IF unit_attempt[i] = 0
                         THEN [invoked EXCEPT ![p] = @ + 1]
                         ELSE invoked
           /\ IF again
              THEN /\ unit_attempt' = [unit_attempt EXCEPT ![i] = @ + 1]
                   /\ future' = future
              ELSE /\ unit_attempt' = unit_attempt
                   /\ future' = [future EXCEPT ![i] =
                         create_single_listing(p, ListItemOutcome(r.out))]
    /\ UNCHANGED <<phase, op, target_platforms, valid, beh,
                   available_platforms, yielded, listing_ids,
                   successful_platforms, failed_platforms, result, prev>>
    /\ UNCHANGED <<api_script>>
    /\ UNCHANGED outside_api

\* the caller drops the outcome; the platforms stay logged in
ForgetCall ==
    /\ DropOutcome
    /\ api_script' = [p \in Platforms |-> AlwaysServes]
    /\ api_requests' = NoRequests
    /\ create_requests' = NoRequests
    /\ unit_attempt' = <<>>
    /\ UNCHANGED authenticated
    /\ UNCHANGED outside_api

----------------------------------------------------------------------------
(* calculate_backoff *)

BackoffFactors == {1, 2, 3}

MaxBackoffs == {5, DefaultMaxBackoff}

\* RetryConfig(backoff_factor=f, max_backoff=m, jitter=j)
BackoffConfig(f, m, j) ==
    [RetryConfig(ListItemMaxRetries, j) EXCEPT !.backoff_factor = f,
                                               !.max_backoff = m]

BackoffConfigs ==
    {BackoffConfig(f, m, j) : f \in BackoffFactors, m \in MaxBackoffs,
                              j \in BOOLEAN}

\* no value returned yet
NoBackoff == -1

BackoffInit ==
    /\ bk_config = RetryConfig(0, FALSE)
    /\ bk_attempt = 0
    /\ bk_backoff = NoBackoff
    /\ bk_previous = NoBackoff

\* a wrapped call starts under some RetryConfig
BackoffConfigure ==
    /\ \E cfg \in BackoffConfigs : bk_config' = cfg
    /\ bk_attempt' = 0
    /\ bk_backoff' = NoBackoff
    /\ bk_previous' = NoBackoff
    /\ UNCHANGED outside_backoff

\* backoff_time = calculate_backoff(attempt, config)
BackoffCompute ==
    /\ bk_config \in BackoffConfigs
    /\ bk_backoff = NoBackoff
    /\ \E u \in JitterDraws :
          bk_backoff' = calculate_backoff(bk_attempt, bk_config, u)
    /\ UNCHANGED <<bk_config, bk_attempt, bk_previous>>
    /\ UNCHANGED outside_backoff

\* `continue`: the loop moves on to the next attempt
BackoffNextAttempt ==
    /\ bk_backoff # NoBackoff
    /\ bk_attempt < MaxAttempt
    /\ bk_attempt' = bk_attempt + 1
    /\ bk_previous' = bk_backoff
    /\ bk_backoff' = NoBackoff
    /\ UNCHANGED bk_config
    /\ UNCHANGED outside_backoff

----------------------------------------------------------------------------
(* CircuitBreaker *)

DefaultFailureThreshold == 5

DefaultRecoveryTimeout == 60

\* the threads that call the function the breaker decorates
Callers == {"t1", "t2"}

\* last_failure_time = None
NoTime == -1

\* CircuitBreaker(failure_threshold=t, recovery_timeout=r)
CircuitBreaker(t, r) ==
    [failure_threshold |-> t,
     recovery_timeout |-> r,
     failure_count |-> 0,
     last_failure_time |-> NoTime,
     state |-> "CLOSED"]

\* _should_attempt_reset at time t
should_attempt_reset(b, t) ==
    IF b.last_failure_time = NoTime
    THEN TRUE
    ELSE t - b.last_failure_time >= b.recovery_timeout

\* `raise Exception("Circuit breaker is OPEN")`, before the try block
reject_Counted(b, t) ==
    [b EXCEPT !.failure_count = @ + 1, !.last_failure_time = t]

reject(b, t) == b

on_success_KeepCount(b) ==
    IF b.state = "HALF_OPEN"
    THEN [b EXCEPT !.state = "CLOSED"]
    ELSE b

\* _on_success
on_success(b) ==
    IF b.state = "HALF_OPEN"
    THEN [b EXCEPT !.state = "CLOSED", !.failure_count = 0]
    ELSE b

on_failure_Above(b, loaded, t) ==
    [b EXCEPT !.failure_count = loaded + 1,
              !.last_failure_time = t,
              !.state = IF loaded + 1 > b.failure_threshold THEN "OPEN"
                                                            ELSE @]

\* _on_failure at time t, `self.failure_count += 1` having loaded `loaded`
on_failure(b, loaded, t) ==
    [b EXCEPT !.failure_count = loaded + 1,
              !.last_failure_time = t,
              !.state = IF loaded + 1 >= b.failure_threshold THEN "OPEN"
                                                             ELSE @]

NoneInFlight == \A c \in Callers : cb_pc[c] = "idle"

BreakerInit ==
    /\ breaker = CircuitBreaker(DefaultFailureThreshold, DefaultRecoveryTimeout)
    /\ now = 0
    /\ cb_pc = [c \in Callers |-> "idle"]
    /\ cb_read = [c \in Callers |-> 0]
    /\ cb_last = [c \in Callers |-> "none"]
    /\ any_success = FALSE
    /\ trailing_failures = 0
    /\ failed_at = NoTime

\* a breaker is constructed and decorates the function
BreakerConstruct ==
    /\ NoneInFlight
    /\ \E t \in 1..MaxThreshold, r \in 1..MaxTimeout :
          breaker' = CircuitBreaker(t, r)
    /\ now' = 0
    /\ cb_pc' = [c \in Callers |-> "idle"]
    /\ cb_read' = [c \in Callers |-> 0]
    /\ cb_last' = [c \in Callers |-> "none"]
    /\ any_success' = FALSE
    /\ trailing_failures' = 0
    /\ failed_at' = NoTime
    /\ UNCHANGED outside_breaker

\* time passes; an exception handler takes no time
Tick ==
    /\ now < MaxTime
    /\ \A c \in Callers : cb_pc[c] # "on_failure"
    /\ now' = now + 1
    /\ UNCHANGED <<breaker, cb_pc, cb_read, cb_last, any_success,
                   trailing_failures, failed_at>>
    /\ UNCHANGED outside_breaker

\* wrapper, from its entry to the call of func or the rejection
BreakerCall(c) ==
    /\ cb_pc[c] = "idle"
    /\ IF breaker.state = "OPEN"
       THEN IF should_attempt_reset(breaker, now)
            THEN /\ breaker' = [breaker EXCEPT !.state = "HALF_OPEN"]
                 /\ cb_pc' = [cb_pc EXCEPT ![c] = "in_func"]
            ELSE /\ breaker' = reject(breaker, now)
                 /\ cb_pc' = [cb_pc EXCEPT ![c] = "rejecting"]
       ELSE /\ breaker' = breaker
            /\ cb_pc' = [cb_pc EXCEPT ![c] = "in_func"]
    /\ UNCHANGED <<now, cb_read, cb_last, any_success, trailing_failures,
                   failed_at>>
    /\ UNCHANGED outside_breaker

\* the caller catches the exception of the rejection
BreakerRejected(c) ==
    /\ cb_pc[c] = "rejecting"
    /\ cb_pc' = [cb_pc EXCEPT ![c] = "idle"]
    /\ cb_last' = [cb_last EXCEPT ![c] = "rejected"]
    /\ UNCHANGED <<breaker, now, cb_read, any_success, trailing_failures,
                   failed_at>>
    /\ UNCHANGED outside_breaker

\* func returns: _on_success(), return result
BreakerFuncReturns(c) ==
    /\ cb_pc[c] = "in_func"
    /\ breaker' = on_success(breaker)
    /\ cb_pc' = [cb_pc EXCEPT ![c] = "idle"]
    /\ cb_last' = [cb_last EXCEPT ![c] = "returned"]
    /\ any_success' = TRUE
    /\ trailing_failures' = 0
    /\ UNCHANGED <<now, cb_read, failed_at>>
    /\ UNCHANGED outside_breaker

\* func raises expected_exception: _on_failure() loads self.failure_count
BreakerFuncRaises(c) ==
    /\ cb_pc[c] = "in_func"
    /\ cb_pc' = [cb_pc EXCEPT ![c] = "on_failure"]
    /\ cb_read' = [cb_read EXCEPT ![c] = breaker.failure_count]
    /\ trailing_failures' = trailing_failures + 1
    /\ failed_at' = now
    /\ UNCHANGED <<breaker, now, cb_last, any_success>>
    /\ UNCHANGED outside_breaker

\* the rest of _on_failure: the stores and the threshold test; then `raise`
BreakerOnFailure(c) ==
    /\ cb_pc[c] = "on_failure"
    /\ breaker' = on_failure(breaker, cb_read[c], now)
    /\ cb_pc' = [cb_pc EXCEPT ![c] = "idle"]
    /\ cb_read' = [cb_read EXCEPT ![c] = 0]
    /\ cb_last' = [cb_last EXCEPT ![c] = "raised"]
    /\ UNCHANGED <<now, any_success, trailing_failures, failed_at>>
    /\ UNCHANGED outside_breaker

\* create_cross_listing with a single target, no thread being inside a
\* function the breaker decorates
CreateOnOneProvider ==
    /\ phase = "idle"
    /\ NoneInFlight
    /\ \E p \in Platforms, s \in ApiScripts :
          StartOverHttp(<<p>>, [q \in Platforms |->
                                  IF q = p THEN s ELSE AlwaysServes])
    /\ UNCHANGED outside_api

----------------------------------------------------------------------------
(* OAuthTokenManager *)

\* config.get('refresh_threshold_seconds', 300), in seconds
DefaultRefreshThreshold == 300

\* the clock of the model advances by a third of the default threshold
TickSeconds == DefaultRefreshThreshold \div 3

\* @retry_on_failure(RetryConfig(max_retries=3, backoff_factor=2))
RefreshMaxRetries == 3

RefreshRetryConfig == RetryConfig(RefreshMaxRetries, TRUE)

\* access_token = None, refresh_token = None
NoToken == 0

\* expires_at = None
NoExpiry == -1

\* expires_in = None
NoExpiresIn == -1

\* the tokens held before any refresh, and those the endpoint issues
StoredToken == 1

FreshToken == 2

\* the thresholds a manager is configured with
RefreshThresholds == {TickSeconds, DefaultRefreshThreshold}

\* lifetimes in seconds, as passed to initialize_tokens or sent by the
\* token endpoint
ExpiresIns == {0, DefaultRefreshThreshold, 2 * DefaultRefreshThreshold}

\* bool(x) of an int or None
Truthy(x) == x # NoExpiresIn /\ x # 0

\* OAuthTokenManager(client_id, client_secret, token_endpoint,
\*                   {'refresh_threshold_seconds': th})
OAuthTokenManager(th) ==
    [access_token |-> NoToken,
     refresh_token |-> NoToken,
     expires_at |-> NoExpiry,
     token_type |-> "Bearer",
     refresh_threshold_seconds |-> th]

\* initialize_tokens(a, r, e) at time t
initialize_tokens(m, a, r, e, t) ==
    [m EXCEPT !.access_token = a,
              !.refresh_token = r,
              !.expires_at = IF Truthy(e) THEN t + e ELSE @]

should_refresh_token_Strict(m, t) ==
    IF m.expires_at = NoExpiry \/ m.refresh_token = NoToken
    THEN FALSE
    ELSE m.expires_at - t < m.refresh_threshold_seconds

\* _should_refresh_token at time t
should_refresh_token(m, t) ==
    IF m.expires_at = NoExpiry \/ m.refresh_token = NoToken
    THEN FALSE
    ELSE m.expires_at - t <= m.refresh_threshold_seconds

is_token_valid_Inclusive(m, t) ==
    IF m.access_token = NoToken THEN FALSE
    ELSE IF m.expires_at = NoExpiry THEN TRUE
    ELSE t <= m.expires_at

\* is_token_valid at time t
is_token_valid(m, t) ==
    IF m.access_token = NoToken THEN FALSE
    ELSE IF m.expires_at = NoExpiry THEN TRUE
    ELSE t < m.expires_at

\* dict.get(k, default)
Get(d, k, default) == IF k \in DOMAIN d THEN d[k] ELSE default

\* a dict with the key k or without it
OptionalEntry(k, values) == {EmptyDict} \cup {k :> v : v \in values}

\* response.json() of a 200 answer
TokenDatas ==
    {a @@ r @@ ty @@ e :
        a \in OptionalEntry("access_token", {FreshToken}),
        r \in OptionalEntry("refresh_token", {FreshToken}),
        ty \in OptionalEntry("token_type", {"MAC"}),
        e \in OptionalEntry("expires_in", ExpiresIns)}

\* what requests.post(token_endpoint) does
TokenEndpointAnswers ==
    {[kind |-> "exception", type |-> "Timeout"]}
    \cup {[kind |-> "response", status |-> s] : s \in {400, 500}}
    \cup {[kind |-> "response", status |-> 200, json |-> d] :
             d \in TokenDatas}

\* the exception a non-200 answer is turned into
RefreshFailed == [kind |-> "exception", type |-> "Exception"]

\* _refresh_access_token, `if success:` branch, at time t
store_token_data(m, d, t) ==
    [m EXCEPT !.access_token = Get(d, "access_token", NoToken),
              !.refresh_token = Get(d, "refresh_token", @),
              !.token_type = Get(d, "token_type", "Bearer"),
              !.expires_at = IF Truthy(Get(d, "expires_in", NoExpiresIn))
                             THEN t + d["expires_in"]
                             ELSE @]

refresh_failure_ClearsToken(m) == [m EXCEPT !.access_token = NoToken]

\* what a refresh that raises leaves of the manager
refresh_failure(m) == m

NoCaller == \A c \in Callers : oa_pc[c] = "idle"

OAuthInit ==
    /\ oauth = OAuthTokenManager(DefaultRefreshThreshold)
    /\ oa_now = 0
    /\ oa_pc = [c \in Callers |-> "idle"]
    /\ oa_attempt = [c \in Callers |-> 0]
    /\ oa_posts = [c \in Callers |-> 0]
    /\ oa_valid = "unasked"
    /\ oa_revoked = "none"

\* __init__
OAuthConstruct ==
    /\ NoCaller
    /\ \E th \in RefreshThresholds : oauth' = OAuthTokenManager(th)
    /\ oa_now' = 0
    /\ oa_pc' = [c \in Callers |-> "idle"]
    /\ oa_attempt' = [c \in Callers |-> 0]
    /\ oa_posts' = [c \in Callers |-> 0]
    /\ oa_valid' = "unasked"
    /\ oa_revoked' = "none"
    /\ UNCHANGED outside_oauth

\* initialize_tokens, from stored credentials
OAuthInitializeTokens ==
    /\ NoCaller
    /\ \E r \in {NoToken, StoredToken}, e \in {NoExpiresIn} \cup ExpiresIns :
          oauth' = initialize_tokens(oauth, StoredToken, r, e, oa_now)
    /\ oa_valid' = "unasked"
    /\ oa_revoked' = "none"
    /\ UNCHANGED <<oa_now, oa_pc, oa_attempt, oa_posts>>
    /\ UNCHANGED outside_oauth

\* datetime.now() advances; reaching a return statement takes no time
OAuthTick ==
    /\ oa_now < OAuthMaxTicks * TickSeconds
    /\ \A c \in Callers : oa_pc[c] \in {"idle", "refresh", "waiting"}
    /\ oa_now' = oa_now + TickSeconds
    /\ oa_valid' = "unasked"
    /\ UNCHANGED <<oauth, oa_pc, oa_attempt, oa_posts, oa_revoked>>
    /\ UNCHANGED outside_oauth

\* get_valid_access_token, up to the refresh or the return statement
OAuthCall(c) ==
    /\ oa_pc[c] = "idle"
    /\ oa_pc' = [oa_pc EXCEPT ![c] =
                    IF oauth.access_token = NoToken THEN "no_token"
                    ELSE IF should_refresh_token(oauth, oa_now) THEN "refresh"
                    ELSE "return"]
    /\ oa_attempt' = [oa_attempt EXCEPT ![c] = 0]
    /\ oa_posts' = [oa_posts EXCEPT ![c] = 0]
    /\ UNCHANGED <<oauth, oa_now, oa_valid, oa_revoked>>
    /\ UNCHANGED outside_oauth

\* one attempt of _refresh_access_token, up to requests.post
OAuthRefreshPost(c) ==
    /\ oa_pc[c] = "refresh"
    /\ IF oauth.refresh_token = NoToken
       THEN \* raise Exception("No refresh token available"): not retried
            /\ oa_pc' = [oa_pc EXCEPT ![c] = "failed"]
            /\ oauth' = refresh_failure(oauth)
            /\ oa_posts' = oa_posts
       ELSE /\ oa_posts' = [oa_posts EXCEPT ![c] = @ + 1]
            /\ oa_pc' = [oa_pc EXCEPT ![c] = "waiting"]
            /\ oauth' = oauth
    /\ UNCHANGED <<oa_now, oa_attempt, oa_valid, oa_revoked>>
    /\ UNCHANGED outside_oauth

\* the rest of the attempt, and the retry decorator's decision
OAuthRefreshAnswer(c) ==
    /\ oa_pc[c] = "waiting"
    /\ \E ans \in TokenEndpointAnswers :
          IF ans.kind = "response" /\ ans.status = 200
          THEN /\ oauth' = store_token_data(oauth, ans.json, oa_now)
               /\ oa_pc' = [oa_pc EXCEPT ![c] = "return"]
               /\ oa_attempt' = oa_attempt
          ELSE LET e == IF ans.kind = "response" THEN RefreshFailed ELSE ans
               IN  IF ShouldRetry(e, RefreshRetryConfig)
                      /\ MayRetry(oa_attempt[c], RefreshRetryConfig)
                   THEN \* time.sleep(backoff_time); continue
                        /\ oa_pc' = [oa_pc EXCEPT ![c] = "refresh"]
                        /\ oa_attempt' = [oa_attempt EXCEPT ![c] = @ + 1]
                        /\ oauth' = oauth
                   ELSE \* raise; caught by get_valid_access_token
                        /\ oa_pc' = [oa_pc EXCEPT ![c] = "failed"]
                        /\ oa_attempt' = oa_attempt
                        /\ oauth' = refresh_failure(oauth)
    /\ oa_valid' = "unasked"
    /\ oa_revoked' = "none"
    /\ UNCHANGED <<oa_now, oa_posts>>
    /\ UNCHANGED outside_oauth

\* `return self.access_token`, or `return None`
OAuthReturn(c) ==
    /\ oa_pc[c] \in {"return", "failed", "no_token"}
    /\ oa_pc' = [oa_pc EXCEPT ![c] = "idle"]
    /\ oa_attempt' = [oa_attempt EXCEPT ![c] = 0]
    /\ oa_posts' = [oa_posts EXCEPT ![c] = 0]
    /\ UNCHANGED <<oauth, oa_now, oa_valid, oa_revoked>>
    /\ UNCHANGED outside_oauth

\* is_token_valid(), called between the calls of get_valid_access_token
OAuthIsTokenValid ==
    /\ NoCaller
    /\ oa_valid' = IF is_token_valid(oauth, oa_now) THEN "valid"
                                                    ELSE "invalid"
    /\ UNCHANGED <<oauth, oa_now, oa_pc, oa_attempt, oa_posts, oa_revoked>>
    /\ UNCHANGED outside_oauth

\* what requests.post(revoke_endpoint) does
RevokeEndpointAnswers ==
    {[kind |-> "exception", type |-> "Timeout"]}
    \cup {[kind |-> "response", status |-> s] : s \in {200, 204, 400}}

\* access_token = None, refresh_token = None, expires_at = None
clear_tokens(m) ==
    [m EXCEPT !.access_token = NoToken,
              !.refresh_token = NoToken,
              !.expires_at = NoExpiry]

\* revoke_tokens
OAuthRevokeTokens ==
    /\ IF oauth.access_token = NoToken
       THEN \* return True
            /\ oauth' = oauth
            /\ oa_revoked' = "True"
       ELSE \E ans \in RevokeEndpointAnswers :
               /\ oauth' = clear_tokens(oauth)
               /\ oa_revoked' = IF ans.kind = "response"
                                   /\ ans.status \in {200, 204}
                                THEN "True"
                                ELSE "False"
    /\ oa_valid' = "unasked"
    /\ UNCHANGED <<oa_now, oa_pc, oa_attempt, oa_posts>>
    /\ UNCHANGED outside_oauth

----------------------------------------------------------------------------
(* The thread pools of concurrent dispatch calls on one service *)

\* self.config.get('global', {}).get('max_workers', 5), as configured
MaxWorkersSettings == {1, 2, max_workers}

\* no executor: the caller is not inside a dispatch call
NoExecutor == [active |-> FALSE, pending |-> 0, running |-> 0]

\* ThreadPoolExecutor(max_workers=self.max_workers) with n units submitted
ThreadPoolExecutor(n) == [active |-> TRUE, pending |-> n, running |-> 0]

PoolInit ==
    /\ svc_max_workers = max_workers
    /\ executor = [d \in Callers |-> NoExecutor]

\* CrossListingService(config), no dispatch call being in progress
ServiceConstruct ==
    /\ \A d \in Callers : ~executor[d].active
    /\ \E w \in MaxWorkersSettings : svc_max_workers' = w
    /\ UNCHANGED executor
    /\ UNCHANGED outside_pool

\* create_cross_listing called by thread d: `with ThreadPoolExecutor(...)`
\* and one executor.submit per available platform of the target list
DispatchEnter(d) ==
    /\ ~executor[d].active
    /\ \E n \in 1..MaxUnits :
          executor' = [executor EXCEPT ![d] = ThreadPoolExecutor(n)]
    /\ UNCHANGED svc_max_workers
    /\ UNCHANGED outside_pool

\* a worker thread of d's executor takes a submitted unit
WorkerStart(d) ==
    /\ executor[d].active
    /\ executor[d].pending > 0
    /\ executor[d].running < svc_max_workers
    /\ executor' = [executor EXCEPT ![d].pending = @ - 1,
                                    ![d].running = @ + 1]
    /\ UNCHANGED svc_max_workers
    /\ UNCHANGED outside_pool

\* the unit returns or raises
WorkerFinish(d) ==
    /\ executor[d].running > 0
    /\ executor' = [executor EXCEPT ![d].running = @ - 1]
    /\ UNCHANGED svc_max_workers
    /\ UNCHANGED outside_pool

\* as_completed is exhausted and the `with` block is left
DispatchLeave(d) ==
    /\ executor[d].active
    /\ executor[d].pending = 0
    /\ executor[d].running = 0
    /\ executor' = [executor EXCEPT ![d] = NoExecutor]
    /\ UNCHANGED svc_max_workers
    /\ UNCHANGED outside_pool

----------------------------------------------------------------------------
(* The deadline a caller has for its dispatch call *)

\* create_cross_listing(listing_data, target_platforms) takes no deadline:
\* the deadline is the caller's alone
DeadlineInit ==
    /\ deadline_expired = FALSE
    /\ outstanding = {}

\* the caller's deadline expires while its dispatch call is in progress
DeadlineExpires ==
    /\ phase = "dispatching"
    /\ ~deadline_expired
    /\ deadline_expired' = TRUE
    /\ outstanding' = {i \in DOMAIN future : ~Completed(i)}
    /\ UNCHANGED outside_deadline

\* the caller, back from the call, sets the deadline of its next one
DeadlineRenewed ==
    /\ phase = "idle"
    /\ deadline_expired
    /\ deadline_expired' = FALSE
    /\ outstanding' = {}
    /\ UNCHANGED outside_deadline

----------------------------------------------------------------------------
(* Specifications *)

Init ==
    /\ SvcInit /\ RetryInit /\ ApiInit /\ BackoffInit /\ BreakerInit
    /\ OAuthInit /\ PoolInit /\ DeadlineInit

Next ==
    \/ CreateCrossListing
    \/ CreateCrossListingAgain
    \/ UpdateCrossListing
    \/ DeleteCrossListing
    \/ \E i \in DOMAIN future : UnitStart(i)
    \/ \E i \in DOMAIN future : UnitFinish(i)
    \/ \E i \in DOMAIN future : Collect(i)
    \/ Return
    \/ Reset

Spec == Init /\ [][Next]_vars

RetryNext ==
    \/ RetryCall
    \/ RetryAttempt
    \/ RetrySleep
    \/ RetryDone

RetrySpec == Init /\ [][RetryNext]_vars

\* the thread inside the wrapper keeps running: the wrapped function
\* comes back and time.sleep ends
RetryFairSpec ==
    RetrySpec /\ WF_vars(RetryAttempt) /\ WF_vars(RetrySleep)

PlatformNext ==
    \/ CreateOverHttp
    \/ \E i \in DOMAIN future : UnitStart(i)
    \/ \E i \in DOMAIN future : ListItemAttempt(i)
    \/ \E i \in DOMAIN future : Collect(i)
    \/ Return
    \/ ForgetCall

PlatformSpec == Init /\ [][PlatformNext]_vars

BackoffNext ==
    \/ BackoffConfigure
    \/ BackoffCompute
    \/ BackoffNextAttempt

BackoffSpec == Init /\ [][BackoffNext]_vars

\* one thread at a time calls through the breaker
BreakerNext ==
    \/ BreakerConstruct
    \/ Tick
    \/ \E c \in Callers : NoneInFlight /\ BreakerCall(c)
    \/ \E c \in Callers : BreakerFuncReturns(c)
    \/ \E c \in Callers : BreakerFuncRaises(c)
    \/ \E c \in Callers : BreakerOnFailure(c)
    \/ \E c \in Callers : BreakerRejected(c)

BreakerSpec == Init /\ [][BreakerNext]_vars

\* the threads call through the breaker whenever they like
ConcurrentBreakerNext ==
    \/ BreakerConstruct
    \/ Tick
    \/ \E c \in Callers : BreakerCall(c)
    \/ \E c \in Callers : BreakerFuncReturns(c)
    \/ \E c \in Callers : BreakerFuncRaises(c)
    \/ \E c \in Callers : BreakerOnFailure(c)
    \/ \E c \in Callers : BreakerRejected(c)

ConcurrentBreakerSpec == Init /\ [][ConcurrentBreakerNext]_vars

\* the service dispatches to one provider while thread t1 calls a function
\* decorated with a CircuitBreaker(); a dispatch and a call through the
\* breaker do not overlap
GuardedNext ==
    \/ phase = "idle" /\ BreakerCall("t1")
    \/ BreakerFuncReturns("t1")
    \/ BreakerFuncRaises("t1")
    \/ BreakerOnFailure("t1")
    \/ BreakerRejected("t1")
    \/ CreateOnOneProvider
    \/ \E i \in DOMAIN future : UnitStart(i)
    \/ \E i \in DOMAIN future : ListItemAttempt(i)
    \/ \E i \in DOMAIN future : Collect(i)
    \/ Return
    \/ ForgetCall

GuardedSpec == Init /\ [][GuardedNext]_vars

\* one OAuthTokenManager, called by one thread at a time
OAuthNext ==
    \/ OAuthConstruct
    \/ OAuthInitializeTokens
    \/ OAuthTick
    \/ OAuthIsTokenValid
    \/ NoCaller /\ OAuthRevokeTokens
    \/ \E c \in Callers : NoCaller /\ OAuthCall(c)
    \/ \E c \in Callers : OAuthRefreshPost(c)
    \/ \E c \in Callers : OAuthRefreshAnswer(c)
    \/ \E c \in Callers : OAuthReturn(c)

OAuthSpec == Init /\ [][OAuthNext]_vars

\* the threads call get_valid_access_token whenever they like
ConcurrentOAuthNext ==
    \/ OAuthConstruct
    \/ OAuthInitializeTokens
    \/ OAuthTick
    \/ OAuthIsTokenValid
    \/ OAuthRevokeTokens
    \/ \E c \in Callers : OAuthCall(c)
    \/ \E c \in Callers : OAuthRefreshPost(c)
    \/ \E c \in Callers : OAuthRefreshAnswer(c)
    \/ \E c \in Callers : OAuthReturn(c)

ConcurrentOAuthSpec == Init /\ [][ConcurrentOAuthNext]_vars

\* threads call create_cross_listing on the same service whenever they like
PoolNext ==
    \/ ServiceConstruct
    \/ \E d \in Callers : DispatchEnter(d)
    \/ \E d \in Callers : WorkerStart(d)
    \/ \E d \in Callers : WorkerFinish(d)
    \/ \E d \in Callers : DispatchLeave(d)

PoolSpec == Init /\ [][PoolNext]_vars

\* create calls over HTTP whose caller has a deadline, not yet expired
\* when the call is made
DeadlineNext ==
    \/ ~deadline_expired /\ CreateOverHttp
    \/ DeadlineExpires
    \/ DeadlineRenewed
    \/ \E i \in DOMAIN future : UnitStart(i)
    \/ \E i \in DOMAIN future : ListItemAttempt(i)
    \/ \E i \in DOMAIN future : Collect(i)
    \/ Return
    \/ ForgetCall

DeadlineSpec == Init /\ [][DeadlineNext]_vars

----------------------------------------------------------------------------
(* Properties of the dispatcher (Spec) *)

\* occurrences of p in the list s
Count(p, s) == Cardinality({i \in DOMAIN s : s[i] = p})

\* the call went through the fan-out and returned its aggregate
Aggregated == phase = "returned" /\ "partial_success" \in DOMAIN result

UnitSucceeded(i) == ~future[i].raised /\ future[i].result.success

\* the error texts an outcome dict carries
ErrorDetailIn(r) == IF "error" \in DOMAIN r THEN {r.error} ELSE {}

\* C1: for valid listing data and a non-empty target list, successful_platforms
\* and failed_platforms of the returned outcome are disjoint and together are
\* exactly the requested targets (a target that is no configured platform is
\* among the failed ones).
C1_OutcomePartitionsTargets ==
    (phase = "returned" /\ op = "create" /\ valid /\ target_platforms # <<>>)
    => /\ Range(result.successful_platforms)
             \cap Range(result.failed_platforms) = {}
       /\ Range(result.successful_platforms)
             \cup Range(result.failed_platforms) = Range(target_platforms)

\* C2: a create call none of whose targets is a configured platform returns
\* (it never dispatches and never raises) an outcome with success = false, no
\* successful platform, every requested target among the failed ones, and
\* invokes no platform method.
C2_NoConfiguredTarget ==
    (op = "create" /\ Range(target_platforms) \cap Platforms = {})
    => /\ phase = "returned"
       /\ "success" \in DOMAIN result
       /\ result.success = FALSE
       /\ result.successful_platforms = <<>>
       /\ Range(target_platforms) \subseteq Range(result.failed_platforms)
       /\ \A p \in ProviderIds : invoked[p] = 0

C2_Witness ==
    /\ phase = "returned"
    /\ op = "create"
    /\ valid
    /\ target_platforms = <<"facebook_marketplace">>
    /\ result.error = "No available platforms"

\* C3: when a dispatch has returned, every unit it started is done; none is
\* pending or running, whether the first unit to finish failed or succeeded.
C3_ReturnsAfterAllUnits ==
    phase = "returned" => \A i \in DOMAIN future : future[i].state = "done"

C3_Witness ==
    /\ phase = "returned"
    /\ Len(future) >= 2
    /\ \E i, j \in DOMAIN future : UnitSucceeded(i) /\ ~UnitSucceeded(j)
    /\ \A i \in DOMAIN future : future[i].state = "done"

\* C4: in the outcome of create_cross_listing, success is true exactly when
\* some unit succeeded, and partial_success is true exactly when some unit
\* succeeded and some unit failed.
C4_SuccessFlags ==
    (phase = "returned" /\ op = "create")
    => LET some_ok == \E i \in DOMAIN future : UnitSucceeded(i)
           some_failed == \E i \in DOMAIN future : ~UnitSucceeded(i)
           partial == "partial_success" \in DOMAIN result
                      /\ result.partial_success
       IN  /\ result.success = some_ok
           /\ partial = (some_ok /\ some_failed)

C4_Witness ==
    /\ Aggregated
    /\ result.success
    /\ result.partial_success
    /\ \E i, j \in DOMAIN future : UnitSucceeded(i) /\ ~UnitSucceeded(j)

\* C5: a platform call that raises never makes the dispatch raise: the call
\* ends by returning an outcome dict, and when every platform call raised the
\* outcome has success = false and all dispatched platforms among the failed.
C5_ProviderErrorsContained ==
    /\ phase = "returned" => "success" \in DOMAIN result
    /\ (phase = "returned" /\ future # <<>>
        /\ \A i \in DOMAIN future : beh[available_platforms[i]] # "ok")
       => /\ result.success = FALSE
          /\ result.successful_platforms = <<>>
          /\ Range(result.failed_platforms) = Range(available_platforms)

C5_Witness ==
    /\ Aggregated
    /\ Len(future) >= 2
    /\ \E i, j \in DOMAIN future :
          /\ beh[available_platforms[i]] = "transient"
          /\ beh[available_platforms[j]] = "permanent"
    /\ result.success = FALSE

\* C6: the returned outcome holds, for every failed platform, that platform's
\* failure record (the error the unit reported).
C6_ErrorDetailPreserved ==
    Aggregated
    => \A i \in DOMAIN future :
          ~UnitSucceeded(i) => future[i].result.error \in ErrorDetailIn(result)

\* C7: one dispatch starts exactly one unit per platform, and each platform
\* appears exactly once across successful_platforms and failed_platforms,
\* also when the target list names a platform twice.
C7_OneUnitPerProvider ==
    Aggregated
    => \A p \in Range(available_platforms) :
          /\ invoked[p] = 1
          /\ Count(p, result.successful_platforms \o result.failed_platforms) = 1

\* C8: two dispatches with the same targets and the same platform behaviour
\* return the same set of successful and the same set of failed platforms,
\* whatever the interleaving and completion order of their units.
C8_SetsIndependentOfInterleaving ==
    (Aggregated /\ prev.present /\ prev.beh = beh)
    => /\ Range(result.successful_platforms) = Range(prev.successful_platforms)
       /\ Range(result.failed_platforms) = Range(prev.failed_platforms)

\* the two dispatches completed their units in different orders
C8_Witness ==
    /\ Aggregated
    /\ prev.present
    /\ prev.beh = beh
    /\ result.successful_platforms # prev.successful_platforms
    /\ Range(result.successful_platforms) = Range(prev.successful_platforms)

\* C9: in two dispatches with the same targets that differ only in how
\* platform B behaves, every other platform A is classified alike: successful
\* in both or failed in both, with the same listing id.
C9_ProviderIsolation ==
    (Aggregated /\ prev.present)
    => \A a \in Platforms :
          prev.beh[a] = beh[a]
          => /\ (a \in Range(result.successful_platforms))
                   = (a \in Range(prev.successful_platforms))
             /\ (a \in Range(result.failed_platforms))
                   = (a \in Range(prev.failed_platforms))
             /\ (a \in DOMAIN result.listing_ids)
                   = (a \in DOMAIN prev.listing_ids)
             /\ a \in DOMAIN result.listing_ids
                   => result.listing_ids[a] = prev.listing_ids[a]

\* B succeeded in the first dispatch and raised in the second; A succeeded
C9_Witness ==
    /\ Aggregated
    /\ prev.present
    /\ \E a, b \in Range(available_platforms) :
          /\ a # b
          /\ prev.beh[b] = "ok" /\ beh[b] # "ok"
          /\ prev.beh[a] = beh[a]
          /\ a \in Range(result.successful_platforms)
          /\ b \in Range(result.failed_platforms)
          /\ b \in Range(prev.successful_platforms)

----------------------------------------------------------------------------
(* Properties of the retry executor (RetrySpec) *)

\* C10: a wrapped call that ends in a retryable condition (a retryable
\* exception type or a Response with a status of retry_on_status) on every
\* attempt is invoked exactly max_retries + 1 times.
C10_ExactlyMaxRetriesPlusOneCalls ==
    (r_pc \in {"returned", "raised"} /\ all_retryable)
    => func_calls = config.max_retries + 1

C10_Witness ==
    /\ r_pc = "raised"
    /\ all_retryable
    /\ config.max_retries = 3
    /\ func_calls = 4
    /\ sleeps = 3

----------------------------------------------------------------------------
(* Properties of the retry executor, continued (RetrySpec) *)

\* the wrapper has handed a result or an exception to its caller
RetryTerminal == r_pc \in {"returned", "raised"}

\* every attempt ended in a retryable condition and none is left
Exhausted ==
    /\ RetryTerminal
    /\ all_retryable
    /\ func_calls = config.max_retries + 1

\* e is an exception of none of the types in cfg.retry_on_exceptions
NonRetryableException(e, cfg) ==
    /\ e.kind = "exception"
    /\ \A cls \in cfg.retry_on_exceptions : ~IsInstance(e.type, cls)

\* C11: when the attempts are used up on a retryable condition, be it a
\* retryable exception or a Response with a retryable status, the caller
\* receives a terminal error tagged RetryExhausted, which is neither a
\* normal return value nor the bare error of a single attempt.
C11_ExhaustionTaggedRetryExhausted ==
    Exhausted =>
        /\ surfaced.how = "raise"
        /\ surfaced.value.kind = "exception"
        /\ surfaced.value.type = "RetryExhausted"

\* C12: an exception of a type outside retry_on_exceptions ends the call at
\* the attempt where it occurs: the function is not invoked again, no
\* backoff sleep follows it, and that same exception is raised to the
\* caller; at the first attempt this is one invocation and no sleep.
C12_NonRetryableSurfacesImmediately ==
    NonRetryableException(last_outcome, config) =>
        /\ r_pc = "raised"
        /\ surfaced = RaiseException(last_outcome)
        /\ func_calls = attempt + 1
        /\ sleeps = attempt
        /\ backoff_time = 0

\* a non-retryable exception at the third attempt, after two retried ones
C12_Witness ==
    /\ r_pc = "raised"
    /\ NonRetryableException(last_outcome, config)
    /\ last_outcome.type = "ValueError"
    /\ func_calls = 3
    /\ sleeps = 2

----------------------------------------------------------------------------
(* Properties of dispatch over HTTP (PlatformSpec) *)

\* a create call to the two platforms a and b has returned; a's API served
\* every request; b, logged in before the call, sent its API nothing but
\* create requests, which the API answered by the script scr
TwoProviderCall(a, b, scr) ==
    /\ phase = "returned"
    /\ op = "create"
    /\ a # b
    /\ target_platforms \in {<<a, b>>, <<b, a>>}
    /\ api_script[a] = AlwaysServes
    /\ api_script[b] = scr
    /\ authenticated[b]
    /\ api_requests[b] = create_requests[b]

\* C13: a create call to {A, B} with max_retries = 3, where B's API answers
\* HTTP 500 to every request, sends B's create request 4 times and returns
\* success = true, partial_success = true and B alone in failed_platforms.
C13_FailingProviderAttemptedFourTimes ==
    \A a, b \in Platforms :
        TwoProviderCall(a, b, [kind |-> "500", failures |-> MaxFailures]) =>
            /\ create_requests[b] = ListItemMaxRetries + 1
            /\ result.success
            /\ result.partial_success
            /\ Range(result.failed_platforms) = {b}

\* C14: a create call to {A, B} with max_retries = 3, where B's API answers
\* HTTP 503 to its first three requests and serves the next one, returns
\* success = true, partial_success = false and both A and B in
\* successful_platforms.
C14_RecoveringProviderSucceeds ==
    \A a, b \in Platforms :
        TwoProviderCall(a, b, [kind |-> "503", failures |-> 3]) =>
            /\ result.success
            /\ ~result.partial_success
            /\ Range(result.successful_platforms) = {a, b}

----------------------------------------------------------------------------
(* Properties of calculate_backoff (BackoffSpec) *)

\* b = min(backoff_factor ** attempt, max_backoff), in seconds
Unjittered(n, cfg) ==
    IF Pow(cfg.backoff_factor, n) <= cfg.max_backoff
    THEN Pow(cfg.backoff_factor, n)
    ELSE cfg.max_backoff

\* C15: the delay d returned by calculate_backoff(attempt, config) has
\* 0 <= d and 0.9*b <= d <= 1.1*b for b = min(backoff_factor^attempt,
\* max_backoff); with jitter disabled d = b exactly, so that it never
\* exceeds max_backoff and, for backoff_factor >= 1, never decreases from
\* one attempt to the next.
C15_BackoffWithinJitterOfCappedPower ==
    bk_backoff # NoBackoff =>
        LET b == Unjittered(bk_attempt, bk_config)
        IN  /\ 0 <= bk_backoff
            /\ 90 * b <= bk_backoff
            /\ bk_backoff <= 110 * b
            /\ ~bk_config.jitter =>
                  /\ bk_backoff = 100 * b
                  /\ bk_backoff <= 100 * bk_config.max_backoff
                  /\ (bk_previous # NoBackoff /\ bk_config.backoff_factor >= 1)
                        => bk_previous <= bk_backoff

\* the power exceeds the cap and the jitter was drawn upwards
C15_Witness ==
    /\ bk_backoff # NoBackoff
    /\ bk_config.jitter
    /\ Pow(bk_config.backoff_factor, bk_attempt) > bk_config.max_backoff
    /\ bk_backoff > 100 * bk_config.max_backoff
    /\ bk_previous # NoBackoff

----------------------------------------------------------------------------
(* Properties of dispatch beside a circuit breaker (GuardedSpec) *)

\* the breaker is Open and recovery_timeout has not elapsed
OpenAndWaiting == breaker.state = "OPEN" /\ ~should_attempt_reset(breaker, now)

\* this step is an attempt of unit i at its provider, and the attempt failed
FailedAttempt(i) ==
    /\ phase = "dispatching"
    /\ phase' = "dispatching"
    /\ future[i].state = "running"
    /\ \/ unit_attempt'[i] = unit_attempt[i] + 1
       \/ future'[i].state = "done" /\ ~future'[i].result.success

\* C16: a dispatch to a provider whose circuit breaker is Open, the
\* recovery timeout not elapsed, makes no call to that provider, sends its
\* API no request and reports the provider in failed_platforms, the retry
\* executor having checked the breaker before the attempt.
C16_OpenBreakerBlocksDispatch ==
    (/\ phase = "returned"
     /\ op = "create"
     /\ Len(target_platforms) = 1
     /\ OpenAndWaiting)
    => LET p == target_platforms[1]
       IN  /\ invoked[p] = 0
           /\ api_requests[p] = 0
           /\ result.failed_platforms = <<p>>

\* C17: every attempt of the retry executor is reported to the provider's
\* circuit breaker: each failed attempt of a provider call increases the
\* breaker's failure count by one.
C17_FailedAttemptsCountedByBreaker ==
    [][\A i \in DOMAIN future :
          FailedAttempt(i) =>
              breaker'.failure_count = breaker.failure_count + 1]_vars

----------------------------------------------------------------------------
(* Properties of the circuit breaker (BreakerSpec) *)

\* C18: for every failure_threshold >= 1, a breaker that starts Closed with
\* failure count 0 and sees nothing but failing calls is still Closed after
\* fewer than failure_threshold failures and is Open right after the
\* failure_threshold-th, with last_failure_time the time of that failure.
C18_ThresholdthFailureOpens ==
    (NoneInFlight /\ ~any_success) =>
        /\ trailing_failures < breaker.failure_threshold =>
              /\ breaker.state = "CLOSED"
              /\ breaker.failure_count = trailing_failures
        /\ trailing_failures >= breaker.failure_threshold =>
              breaker.state = "OPEN"
        /\ trailing_failures >= 1 => breaker.last_failure_time = failed_at

\* the last of three failures, some time after construction, opened a
\* breaker of threshold three
C18_Witness ==
    /\ NoneInFlight
    /\ ~any_success
    /\ breaker.failure_threshold = 3
    /\ trailing_failures = 3
    /\ breaker.state = "OPEN"
    /\ breaker.last_failure_time > 0

\* C19: only consecutive failures count: the breaker moves from Closed to
\* Open only when the last failure_threshold calls through it all failed,
\* a successful call in Closed having restarted the count.
C19_OnlyConsecutiveFailuresOpen ==
    [][(breaker.state = "CLOSED" /\ breaker'.state = "OPEN") =>
          trailing_failures' >= breaker.failure_threshold]_vars

\* C20: while the breaker is Open and recovery_timeout has not elapsed
\* since last_failure_time, a call through it is rejected without the
\* function being invoked, and the rejection leaves state, failure_count
\* and last_failure_time as they were.
C20_RejectionLeavesBreakerUnchanged ==
    [][\A c \in Callers :
          (OpenAndWaiting /\ cb_pc[c] = "idle" /\ cb_pc'[c] # "idle") =>
              /\ cb_pc'[c] = "rejecting"
              /\ breaker' = breaker]_vars

\* a call was rejected some time after the failure that opened the breaker
C20_Witness ==
    /\ OpenAndWaiting
    /\ \E c \in Callers : cb_pc[c] = "rejecting"
    /\ now > breaker.last_failure_time

----------------------------------------------------------------------------
(* Properties of the circuit breaker under concurrent callers *)

\* the threads that are inside the wrapped function
InFunc == {c \in Callers : cb_pc[c] = "in_func"}

\* C21: once recovery_timeout has elapsed in Open, one probe call is let
\* through per HalfOpen window: while the state is HalfOpen at most one
\* invocation of the wrapped function is in progress, a second caller
\* arriving meanwhile being rejected.
C21_OneProbePerHalfOpenWindow ==
    breaker.state = "HALF_OPEN" => Cardinality(InFunc) <= 1

C23_ProbeFailureReopens ==
    [][\A c \in Callers :
          (/\ breaker.state = "HALF_OPEN"
           /\ cb_pc[c] = "on_failure"
           /\ cb_pc'[c] = "idle")
          => /\ breaker'.state = "OPEN"
             /\ breaker'.last_failure_time = failed_at
             /\ breaker'.last_failure_time = now
             /\ ~should_attempt_reset(breaker', now')]_vars

\* C24: breaker updates are atomic: when N calls through the breaker fail,
\* concurrently or not, failure_count has increased by exactly N and the
\* state is the one N failures in sequence produce.
C24_NoLostFailure ==
    (NoneInFlight /\ ~any_success) =>
        /\ breaker.failure_count = trailing_failures
        /\ breaker.state = "OPEN"
              <=> trailing_failures >= breaker.failure_threshold

----------------------------------------------------------------------------
(* Claims about OAuthTokenManager *)

\* C30: is_token_valid() returns true if and only if an access token is
\* present and either no expiry is known or the expiry is strictly in the
\* future; a token without a declared expiry counts as non-expiring.
C30_ValidIffPresentAndUnexpired ==
    oa_valid # "unasked" =>
        (oa_valid = "valid" <=>
            /\ oauth.access_token # NoToken
            /\ \/ oauth.expires_at = NoExpiry
               \/ oauth.expires_at > oa_now)

\* asked at the very second the token expires
C30_Witness ==
    /\ oa_valid = "invalid"
    /\ oauth.access_token # NoToken
    /\ oauth.expires_at = oa_now

\* callers whose refresh request is with the token endpoint
AwaitingRefresh == {c \in Callers : oa_pc[c] = "waiting"}

\* C25: concurrent get_valid_access_token() calls on a manager whose token
\* is within the refresh threshold trigger one refresh request between
\* them: two callers never have a refresh request each in flight.
C25_OneRefreshForConcurrentCallers ==
    Cardinality(AwaitingRefresh) <= 1

\* C26: every token get_valid_access_token() returns is valid when it is
\* handed out: when the call returns a token, not None, is_token_valid()
\* holds of the manager, whatever token state the call began in.
C26_ReturnedTokenIsValid ==
    [][\A c \in Callers :
          (/\ oa_pc[c] = "return"
           /\ oa_pc'[c] = "idle"
           /\ oauth.access_token # NoToken)
          => is_token_valid(oauth, oa_now)]_vars

\* C27: get_valid_access_token() attempts a refresh before handing out the
\* token exactly when an access token and a refresh token are present, an
\* expiry is known and expires_at - now <= refresh_threshold_seconds; in
\* every other state with an access token it goes on to return the stored
\* token without a request, and with no access token it returns None.
C27_RefreshExactlyWhenDue ==
    [][\A c \in Callers :
          (oa_pc[c] = "idle" /\ oa_pc'[c] # "idle")
          => LET due == /\ oauth.access_token # NoToken
                        /\ oauth.refresh_token # NoToken
                        /\ oauth.expires_at # NoExpiry
                        /\ oauth.expires_at - oa_now
                              <= oauth.refresh_threshold_seconds
             IN  /\ oa_pc'[c] = "refresh" <=> due
                 /\ oa_pc'[c] = "no_token" <=> oauth.access_token = NoToken
                 /\ oa_pc'[c] = "return"
                       <=> (oauth.access_token # NoToken /\ ~due)
                 /\ oa_posts'[c] = 0
                 /\ oauth' = oauth]_vars

\* a call has found the token exactly refresh_threshold_seconds from expiry
C27_Witness ==
    \E c \in Callers :
        /\ oa_pc[c] = "refresh"
        /\ oa_posts[c] = 0
        /\ oauth.expires_at - oa_now = oauth.refresh_threshold_seconds

\* C28: after a successful refresh, whatever the 200 response holds, the
\* manager is back in the Valid state: it has an access token and a
\* refresh token, the token is valid, and a refresh is no longer needed,
\* so that the next get_valid_access_token() posts no request.
C28_RefreshedTokenNeedsNoRefresh ==
    [][\A c \in Callers :
          (oa_pc[c] = "waiting" /\ oa_pc'[c] = "return")
          => /\ oauth'.access_token # NoToken
             /\ oauth'.refresh_token # NoToken
             /\ is_token_valid(oauth', oa_now')
             /\ ~should_refresh_token(oauth', oa_now')]_vars

\* C29: when a needed refresh fails, by a non-200 response or by an
\* exception after the refresh's own retries, get_valid_access_token()
\* returns None and no step of the call has changed access_token,
\* refresh_token, token_type or expires_at, so that a refresh is still due
\* and a later call attempts it again.
C29_FailedRefreshKeepsTokens ==
    [][\A c \in Callers :
          /\ (oa_pc'[c] \in {"refresh", "waiting", "failed"}
              /\ oa_pc'[c] # oa_pc[c])
             => oauth' = oauth
          /\ (oa_pc[c] = "failed" /\ oa_pc'[c] = "idle")
             => /\ oauth' = oauth
                /\ oauth'.access_token # NoToken
                /\ should_refresh_token(oauth', oa_now')]_vars

\* the refresh has failed after max_retries + 1 requests
C29_Witness ==
    \E c \in Callers :
        /\ oa_pc[c] = "failed"
        /\ oa_posts[c] = RefreshMaxRetries + 1
        /\ oauth.access_token # NoToken

\* C31: after revoke_tokens() has returned, the local token state is
\* cleared: access_token, refresh_token and expires_at are all None,
\* however the revocation request ended and whatever tokens were held.
C31_RevokeClearsTokens ==
    oa_revoked # "none" =>
        /\ oauth.access_token = NoToken
        /\ oauth.refresh_token = NoToken
        /\ oauth.expires_at = NoExpiry

----------------------------------------------------------------------------
(* Claims about the pool bound, deadlines and validation *)

\* units running in the executors of all dispatch calls in progress
RunningUnits == executor["t1"].running + executor["t2"].running

\* C32: the number of provider units running at the same time never
\* exceeds max_workers, counted over all dispatch calls in progress on
\* the same service instance.
C32_PoolBoundSharedByDispatches ==
    RunningUnits <= svc_max_workers

\* C33: once the deadline of a dispatch has expired, no provider unit
\* makes a further request, and the dispatch returns with every unit that
\* was still outstanding in failed_platforms.
C33_DeadlineStopsOutstandingUnits ==
    [][/\ (deadline_expired /\ phase = "dispatching")
          => api_requests' = api_requests
       /\ (deadline_expired' /\ phase' = "returned")
          => \A i \in outstanding' :
                available_platforms'[i] \in Range(failed_platforms')]_vars

\* C34: when the listing data fails validation, create_cross_listing
\* returns success = false with error 'Invalid listing data', no
\* successful platform and every requested target in failed_platforms,
\* and invokes no provider method for any target.
C34_InvalidListingRejected ==
    (op = "create" /\ ~valid)
    => /\ phase = "returned"
       /\ result.success = FALSE
       /\ result.error = "Invalid listing data"
       /\ result.successful_platforms = <<>>
       /\ result.listing_ids = EmptyDict
       /\ Range(target_platforms) \subseteq Range(result.failed_platforms)
       /\ \A p \in ProviderIds : invoked[p] = 0

\* an invalid listing was sent to two configured platforms
C34_Witness ==
    /\ phase = "returned"
    /\ op = "create"
    /\ ~valid
    /\ Range(target_platforms) = Platforms
    /\ result.error = "Invalid listing data"

----------------------------------------------------------------------------
(* Properties of the retry executor, concluded (RetrySpec) *)

\* C35: within one retry_on_failure call, attempt k + 1 starts only after
\* attempt k has finished and one backoff sleep, computed for index k, has
\* elapsed; there is no sleep before the first attempt or after the last,
\* so that a call of n attempts performs n - 1 sleeps.
C35_AttemptsSeparatedByOneBackoff ==
    /\ r_pc = "attempt"
       => /\ func_calls = attempt
          /\ sleeps = attempt
    /\ r_pc = "sleeping"
       => /\ func_calls = attempt + 1
          /\ sleeps = attempt
          /\ \E u \in JitterDraws :
                backoff_time = calculate_backoff(attempt, config, u)
    /\ RetryTerminal
       => /\ func_calls = attempt + 1
          /\ sleeps = func_calls - 1

\* a call has ended after four attempts and three sleeps
C35_Witness ==
    /\ r_pc = "returned"
    /\ func_calls = 4
    /\ sleeps = 3
    /\ last_outcome.kind = "value"

\* what a call in progress or ended has done so far
WithinBudget ==
    /\ func_calls <= config.max_retries + 1
    /\ RetryTerminal
       => /\ func_calls >= 1
          /\ r_pc = "returned"
             => /\ last_outcome.kind # "exception"
                /\ surfaced = ReturnResult(last_outcome)
          /\ r_pc = "raised"
             => /\ last_outcome.kind = "exception"
                /\ surfaced = RaiseException(last_outcome)

\* C36: for every sequence of outcomes of the wrapped function, a
\* retry_on_failure call invokes the function at least once and at most
\* max_retries + 1 times and then terminates, returning the last result
\* or raising the last exception, never without one of the two.
C36_BoundedCallsThenTerminates ==
    /\ []WithinBudget
    /\ (r_pc \in {"attempt", "sleeping"}) ~> RetryTerminal

\* a call that saw exceptions and retryable statuses has returned the
\* response of its last attempt
C36_Witness ==
    /\ r_pc = "returned"
    /\ func_calls = config.max_retries + 1
    /\ config.max_retries = 2
    /\ last_exception.kind = "exception"
    /\ last_outcome.kind = "response"
    /\ last_outcome.status = 503

----------------------------------------------------------------------------
(* Properties of the circuit breaker, concluded *)

\* the state is one of the three, and a breaker that is not Closed has
\* counted failure_threshold failures and knows when the last one was
BreakerStateConsistent ==
    /\ breaker.state \in {"CLOSED", "OPEN", "HALF_OPEN"}
    /\ breaker.state \in {"OPEN", "HALF_OPEN"}
       => /\ breaker.failure_count >= breaker.failure_threshold
          /\ breaker.last_failure_time # NoTime

\* C37: over every sequence of calls through a CircuitBreaker, whenever
\* the state is OPEN or HALF_OPEN, failure_count >= failure_threshold and
\* last_failure_time is set; the state is one of CLOSED, OPEN, HALF_OPEN;
\* and HALF_OPEN is entered only from OPEN, recovery_timeout after
\* last_failure_time or later.
C37_BreakerInvariant ==
    /\ []BreakerStateConsistent
    /\ [][(breaker.state # "HALF_OPEN" /\ breaker'.state = "HALF_OPEN")
          => /\ breaker.state = "OPEN"
             /\ breaker.last_failure_time # NoTime
             /\ now - breaker.last_failure_time
                   >= breaker.recovery_timeout]_vars

----------------------------------------------------------------------------
(* Properties of the platforms and of update and delete *)

\* C38: a create-listing request is sent only by an authenticated
\* platform: list_item on a platform whose authenticated flag is false
\* first calls authenticate(); if that succeeds the flag becomes true and
\* the listing request follows, if it fails list_item raises and no
\* listing request is sent. No operation resets the flag once it is set.
C38_ListingRequestOnlyWhenAuthenticated ==
    [][\A p \in Platforms :
          /\ authenticated[p] => authenticated'[p]
          /\ create_requests'[p] > create_requests[p] => authenticated'[p]
          /\ (~authenticated[p] /\ api_requests'[p] > api_requests[p])
             => IF Answer(api_script[p], api_requests[p] + 1) = "ok"
                THEN /\ authenticated'[p]
                     /\ api_requests'[p] = api_requests[p] + 2
                     /\ create_requests'[p] = create_requests[p] + 1
                ELSE /\ ~authenticated'[p]
                     /\ api_requests'[p] = api_requests[p] + 1
                     /\ create_requests'[p] = create_requests[p]
                     /\ \E i \in DOMAIN future :
                           /\ available_platforms[i] = p
                           /\ future[i].state = "running"
                           /\ future'[i].state = "done"]_vars

\* a unit has ended at a failed login, no listing request having been sent
C38_Witness ==
    \E p \in Platforms :
        /\ phase = "dispatching"
        /\ ~authenticated[p]
        /\ api_requests[p] = 1
        /\ create_requests[p] = 0
        /\ \E i \in DOMAIN future :
              available_platforms[i] = p /\ future[i].state = "done"

\* C39: update_cross_listing and delete_cross_listing invoke a provider
\* only for the pairs the listing-id lookup returns; when it returns none
\* they return success = false with error 'No platform listings found for
\* item' and invoke no provider method, and with the shipped lookup, which
\* always returns none, every update and delete call ends this way.
C39_UpdateDeleteFindNoListings ==
    op \in {"update", "delete"}
    => /\ \A p \in ProviderIds :
             invoked[p] > 0 => p \in DOMAIN get_platform_listings(ItemId)
       /\ Range(available_platforms)
             \subseteq DOMAIN get_platform_listings(ItemId)
       /\ phase = "returned"
       /\ result = [success |-> FALSE,
                    error |-> "No platform listings found for item",
                    item_id |-> ItemId]
       /\ \A p \in ProviderIds : invoked[p] = 0

\* a delete call has returned
C39_Witness ==
    /\ op = "delete"
    /\ phase = "returned"
    /\ result.error = "No platform listings found for item"
    /\ future = <<>>

============================================================================
